---- MODULE Spec2Model ----
(***************************************************************************)
(* Model of the school portal's adaptive image compressor                  *)
(* (services/imageService.ts, compressImage).                              *)
(*                                                                         *)
(* One compressImage call is a chain of callbacks:                         *)
(*   reader.onload -> img.onload -> canvas.toBlob callback (repeated)      *)
(*   -> blobReader.onloadend.                                              *)
(* The record `call` holds the closure state of one call; every handler is *)
(* an operator from the call record to the call record after the handler.  *)
(*                                                                         *)
(* Numbers.  Quality is kept in tenths (9 stands for 0.9); the IEEE-754    *)
(* rounding error of the repeated `quality - 0.1` (below 2e-16) is not     *)
(* represented.  Blob sizes are bytes; `blob.size / 1024 > maxSizeKB` is   *)
(* compared as `blob.size > maxSizeKB * 1024`, which is the same test for  *)
(* whole-number bounds.  The resize arithmetic is the code's double        *)
(* arithmetic, followed by the truncation a canvas applies to its width    *)
(* and height attributes.                                                  *)
(*                                                                         *)
(* `calls` holds the closure states of compressImage calls that are in     *)
(* flight together, `form` the state of the student form (StudentForm)     *)
(* whose photo uploads start such calls, and `app` the state of the App    *)
(* component with the screen React last rendered from it.                  *)
(***************************************************************************)
EXTENDS Integers, Sequences, FiniteSets, TLC

VARIABLES call, round, calls, form, app

vars == <<call, round, calls, form, app>>

\* ---------------------------------------------------------------- bounds
\* Largest whole-KB bound tried for minSizeKB / maxSizeKB besides the form's.
MaxKB == 2
\* Source dimensions within this distance of the 1024 bound are all tried.
DimSpread == 2
\* Source dimensions tried by the resize specification: the multiples of
\* DimStep up to MaxDim, besides the sampled ones.
DimStep == 64
MaxDim == 2560
\* How many times an accepted output is fed back into compressImage.
MaxRecompress == 1

\* ------------------------------------------------------ program constants
MAX_WIDTH == 1024
MAX_HEIGHT == 1024
InitialQuality == 9
InitialAttempts == 10
QualityStep == 1
BytesPerKB == 1024
FormMinKB == 20
FormMaxKB == 50

\* Value of the blob argument when the encoder produces no output.
NoBlob == -1

\* ------------------------------------------------------------ input sets
\* 1122 x 561 is a size whose scaled height the double arithmetic leaves
\* just below the whole number 512.
SampleDims == {1, 2, 500, 561, 800, 1000, 1122, 1600, 2000, 2048}

Dims ==
    SampleDims
        \cup ((MAX_WIDTH - DimSpread) .. (MAX_WIDTH + DimSpread))
        \cup {d \in 1 .. MaxDim : d % DimStep = 0}

\* Source sizes of the search-loop specification.
SourceSizes == {<<500, 800>>, <<2000, 1000>>, <<1122, 561>>}

Windows == {<<FormMinKB, FormMaxKB>>} \cup ((1 .. MaxKB) \X (1 .. MaxKB))

\* Sizes the encoder may report for a window: on and next to both bounds,
\* and one well above the upper bound.
BlobSizes(minSizeKB, maxSizeKB) ==
    { s \in { minSizeKB * BytesPerKB - 1, minSizeKB * BytesPerKB,
              maxSizeKB * BytesPerKB } : s <= maxSizeKB * BytesPerKB }
        \cup { maxSizeKB * BytesPerKB + 1, (maxSizeKB + 1) * BytesPerKB }

\* ------------------------------------------------- double-precision resize
RECURSIVE Pow2Mod(_, _)
\* 2^k mod w
Pow2Mod(k, w) == IF k = 0 THEN 1 % w ELSE (2 * Pow2Mod(k - 1, w)) % w

RECURSIVE Pow2(_)
Pow2(k) == IF k = 0 THEN 1 ELSE 2 * Pow2(k - 1)

RECURSIVE ILog2(_)
\* floor(log2 x), x >= 1
ILog2(x) == IF x < 2 THEN 0 ELSE 1 + ILog2(x \div 2)

RECURSIVE Binade(_, _)
\* least t >= 0 with larger <= bound * 2^(t+1)
Binade(larger, bound) ==
    IF larger <= 2 * bound THEN 0 ELSE 1 + Binade((larger + 1) \div 2, bound)

\* IntegerPart(fl(other * fl(bound / larger))) for larger > bound = 2^10:
\* the value a canvas dimension takes from `other *= bound / larger`.
\* fl(bound/larger) has a 53-bit significand M = round(2^(63+t) / larger);
\* rho is the remainder of that division.  When other*bound/larger is not a
\* whole number the rounding error (below 2^-40) cannot cross a whole number.
\* When it is a whole number x, the product falls short of x exactly when the
\* quotient was rounded down by more than half the spacing of doubles below x.
ScaleDouble(other, larger, bound) ==
    LET t == Binade(larger, bound)
        rho == Pow2Mod(63 + t, larger)
        x == (other * bound) \div larger
        rem == (other * bound) % larger
        p == ILog2(x)
        pp == IF x = Pow2(p) THEN p - 1 ELSE p
        e == t + pp
        stays == IF e >= 0 THEN other * rho <= larger * Pow2(e)
                           ELSE other * rho * Pow2(0 - e) <= larger
    IN  IF rem # 0 \/ x = 0 THEN x
        ELSE IF rho = 0 \/ 2 * rho > larger THEN x
        ELSE IF stays THEN x ELSE x - 1

\* Resize without the `width > MAX_WIDTH` test: a wide source is always
\* scaled to the bound, also up to it.
Resize_NoWidthGuard(w, h) ==
    IF w > h
    THEN [width |-> MAX_WIDTH, height |-> (h * MAX_WIDTH) \div w]
    ELSE IF h > MAX_HEIGHT
         THEN [width |-> ScaleDouble(w, h, MAX_HEIGHT), height |-> MAX_HEIGHT]
         ELSE [width |-> w, height |-> h]

\* Resize without the `height > MAX_HEIGHT` test.
Resize_NoHeightGuard(w, h) ==
    IF w > h
    THEN IF w > MAX_WIDTH
         THEN [width |-> MAX_WIDTH, height |-> ScaleDouble(h, w, MAX_WIDTH)]
         ELSE [width |-> w, height |-> h]
    ELSE [width |-> (w * MAX_HEIGHT) \div h, height |-> MAX_HEIGHT]

\* Resize whose second branch tests `height > width`: a square source takes
\* neither branch.
Resize_SquareSkipped(w, h) ==
    IF w > h
    THEN IF w > MAX_WIDTH
         THEN [width |-> MAX_WIDTH, height |-> ScaleDouble(h, w, MAX_WIDTH)]
         ELSE [width |-> w, height |-> h]
    ELSE IF h > w /\ h > MAX_HEIGHT
         THEN [width |-> ScaleDouble(w, h, MAX_HEIGHT), height |-> MAX_HEIGHT]
         ELSE [width |-> w, height |-> h]

\* Resize that sets the larger dimension to the bound and forgets to scale
\* the other one.
Resize_OtherUnscaled(w, h) ==
    IF w > h
    THEN IF w > MAX_WIDTH
         THEN [width |-> MAX_WIDTH, height |-> IF h > MAX_HEIGHT THEN MAX_HEIGHT ELSE h]
         ELSE [width |-> w, height |-> h]
    ELSE IF h > MAX_HEIGHT
         THEN [width |-> IF w > MAX_WIDTH THEN MAX_WIDTH ELSE w, height |-> MAX_HEIGHT]
         ELSE [width |-> w, height |-> h]

\* Lines 28-43: the canvas size for a decoded image of size w x h.
Resize(w, h) ==
    IF w > h
    THEN IF w > MAX_WIDTH
         THEN [width |-> MAX_WIDTH, height |-> ScaleDouble(h, w, MAX_WIDTH)]
         ELSE [width |-> w, height |-> h]
    ELSE IF h > MAX_HEIGHT
         THEN [width |-> ScaleDouble(w, h, MAX_HEIGHT), height |-> MAX_HEIGHT]
         ELSE [width |-> w, height |-> h]

\* ------------------------------------------------------- promise settling
NoError == [kind |-> "none", minSizeKB |-> 0, maxSizeKB |-> 0]
NoResult == [mime |-> "none", bytes |-> 0, length |-> 0]

ReadError == [kind |-> "read", minSizeKB |-> 0, maxSizeKB |-> 0]
DecodeError == [kind |-> "decode", minSizeKB |-> 0, maxSizeKB |-> 0]
ContextError == [kind |-> "context", minSizeKB |-> 0, maxSizeKB |-> 0]
EncodeError == [kind |-> "encode", minSizeKB |-> 0, maxSizeKB |-> 0]
\* A size error whose message names the upper bound only.
SizeError_OnlyMax(c) ==
    [kind |-> "size", minSizeKB |-> 0, maxSizeKB |-> c.maxSizeKB]

\* Line 49: the message interpolates both requested bounds.
SizeError(c) ==
    [kind |-> "size", minSizeKB |-> c.minSizeKB, maxSizeKB |-> c.maxSizeKB]

\* A promise settles once: a later resolve or reject changes nothing.
\* settleCalls counts the calls of resolve and reject the code has made.
reject(c, err) ==
    IF c.settled # "pending"
    THEN [c EXCEPT !.pc = "done", !.settleCalls = @ + 1]
    ELSE [c EXCEPT !.pc = "done", !.settled = "rejected", !.error = err,
                   !.settleCalls = @ + 1]

resolve(c, value) ==
    IF c.settled # "pending"
    THEN [c EXCEPT !.pc = "done", !.settleCalls = @ + 1]
    ELSE [c EXCEPT !.pc = "done", !.settled = "resolved", !.result = value,
                   !.settleCalls = @ + 1]

\* blobReader.readAsDataURL(blob): a base64 data URL of the blob's bytes.
DataURLPrefixLen == 23
DataURL(size) ==
    [mime |-> "image/jpeg", bytes |-> size,
     length |-> DataURLPrefixLen + 4 * ((size + 2) \div 3)]

\* ------------------------------------------------------------- tryCompress
\* tryCompress giving up with one attempt left (`attempts <= 1`).
tryCompress_GivesUpEarly(c, quality, attempts) ==
    LET d == [c EXCEPT !.tries = Append(@, [quality |-> quality,
                                            attempts |-> attempts])]
    IN  IF attempts <= 1
        THEN reject(d, SizeError(d))
        ELSE [d EXCEPT !.pc = "encode"]

\* tryCompress giving up one attempt late (`attempts < 0`).
tryCompress_GivesUpLate(c, quality, attempts) ==
    LET d == [c EXCEPT !.tries = Append(@, [quality |-> quality,
                                            attempts |-> attempts])]
    IN  IF attempts < 0
        THEN reject(d, SizeError(d))
        ELSE [d EXCEPT !.pc = "encode"]

\* Lines 47-52: one activation of tryCompress(quality, attempts).  It either
\* rejects (budget spent) or hands the canvas to the encoder at `quality`.
tryCompress(c, quality, attempts) ==
    LET d == [c EXCEPT !.tries = Append(@, [quality |-> quality,
                                            attempts |-> attempts])]
    IN  IF attempts <= 0
        THEN reject(d, SizeError(d))
        ELSE [d EXCEPT !.pc = "encode"]

\* Parameters of the active tryCompress activation.
CurQuality(c) == c.tries[Len(c.tries)].quality
CurAttempts(c) == c.tries[Len(c.tries)].attempts

\* The toBlob callback retrying an undersized blob at a higher quality.
toBlobCallback_RetryUndersized(c, blob) ==
    LET d == [c EXCEPT !.blobs = Append(@, blob)]
    IN  IF blob = NoBlob
        THEN reject(d, EncodeError)
        ELSE IF blob > d.maxSizeKB * BytesPerKB
        THEN tryCompress(d, CurQuality(d) - QualityStep, CurAttempts(d) - 1)
        ELSE IF blob < d.minSizeKB * BytesPerKB
        THEN tryCompress(d, CurQuality(d) + QualityStep, CurAttempts(d) - 1)
        ELSE [d EXCEPT !.pc = "blobRead", !.accepted = blob]

\* The toBlob callback treating a null blob as one more failed attempt.
toBlobCallback_RetryOnNull(c, blob) ==
    LET d == [c EXCEPT !.blobs = Append(@, blob)]
    IN  IF blob = NoBlob \/ blob > d.maxSizeKB * BytesPerKB
        THEN tryCompress(d, CurQuality(d) - QualityStep, CurAttempts(d) - 1)
        ELSE [d EXCEPT !.pc = "blobRead", !.accepted = blob]

\* The toBlob callback that accepts an undersized blob but never starts the
\* blob reader, so that no onloadend follows.
toBlobCallback_NeverReads(c, blob) ==
    LET d == [c EXCEPT !.blobs = Append(@, blob)]
    IN  IF blob = NoBlob
        THEN reject(d, EncodeError)
        ELSE IF blob > d.maxSizeKB * BytesPerKB
        THEN tryCompress(d, CurQuality(d) - QualityStep, CurAttempts(d) - 1)
        ELSE IF blob < d.minSizeKB * BytesPerKB
        THEN [d EXCEPT !.pc = "stalled", !.accepted = blob]
        ELSE [d EXCEPT !.pc = "blobRead", !.accepted = blob]

\* The toBlob callback testing `sizeKB >= maxSizeKB`.
toBlobCallback_RetryAtMax(c, blob) ==
    LET d == [c EXCEPT !.blobs = Append(@, blob)]
    IN  IF blob = NoBlob
        THEN reject(d, EncodeError)
        ELSE IF blob >= d.maxSizeKB * BytesPerKB
        THEN tryCompress(d, CurQuality(d) - QualityStep, CurAttempts(d) - 1)
        ELSE [d EXCEPT !.pc = "blobRead", !.accepted = blob]

\* The toBlob callback that reads back the blob of the first attempt instead
\* of the one it has just accepted.
toBlobCallback_ReadsFirstBlob(c, blob) ==
    LET d == [c EXCEPT !.blobs = Append(@, blob)]
    IN  IF blob = NoBlob
        THEN reject(d, EncodeError)
        ELSE IF blob > d.maxSizeKB * BytesPerKB
        THEN tryCompress(d, CurQuality(d) - QualityStep, CurAttempts(d) - 1)
        ELSE [d EXCEPT !.pc = "blobRead", !.accepted = d.blobs[1]]

\* Lines 53-79: the toBlob callback; blob is a size in bytes or NoBlob.
toBlobCallback(c, blob) ==
    LET d == [c EXCEPT !.blobs = Append(@, blob)]
    IN  IF blob = NoBlob
        THEN reject(d, EncodeError)
        ELSE IF blob > d.maxSizeKB * BytesPerKB
        THEN tryCompress(d, CurQuality(d) - QualityStep, CurAttempts(d) - 1)
        ELSE IF blob < d.minSizeKB * BytesPerKB
        THEN [d EXCEPT !.pc = "blobRead", !.accepted = blob]
        ELSE [d EXCEPT !.pc = "blobRead", !.accepted = blob]

\* img.onload starting the search with a budget of 11 attempts.
imgOnload_ElevenAttempts(c, hasCtx) ==
    IF ~hasCtx
    THEN reject(c, ContextError)
    ELSE LET sz == Resize(c.imgWidth, c.imgHeight)
             d == [c EXCEPT !.canvasWidth = sz.width,
                            !.canvasHeight = sz.height,
                            !.drawn = TRUE]
         IN  tryCompress(d, InitialQuality, InitialAttempts + 1)

\* img.onload without the `return` in front of the context rejection: the
\* handler rejects and goes on to start the search loop.
imgOnload_NoReturn(c, hasCtx) ==
    LET c0 == IF ~hasCtx THEN reject(c, ContextError) ELSE c
        sz == Resize(c0.imgWidth, c0.imgHeight)
        d == [c0 EXCEPT !.canvasWidth = sz.width,
                        !.canvasHeight = sz.height,
                        !.drawn = TRUE]
    IN  tryCompress(d, InitialQuality, InitialAttempts)

\* img.onload starting two encodes at once, at 0.9 and at 0.8.
imgOnload_TwoEncodes(c, hasCtx) ==
    IF ~hasCtx
    THEN reject(c, ContextError)
    ELSE LET sz == Resize(c.imgWidth, c.imgHeight)
             d == [c EXCEPT !.canvasWidth = sz.width,
                            !.canvasHeight = sz.height,
                            !.drawn = TRUE]
         IN  tryCompress(tryCompress(d, InitialQuality, InitialAttempts),
                         InitialQuality - QualityStep, InitialAttempts - 1)

\* Lines 17-86: img.onload.
imgOnload(c, hasCtx) ==
    IF ~hasCtx
    THEN reject(c, ContextError)
    ELSE LET sz == Resize(c.imgWidth, c.imgHeight)
             d == [c EXCEPT !.canvasWidth = sz.width,
                            !.canvasHeight = sz.height,
                            !.drawn = TRUE]
         IN  tryCompress(d, InitialQuality, InitialAttempts)

\* Lines 14-16: reader.onload hands the data URL to a new Image.
readerOnload(c) == [c EXCEPT !.pc = "decode"]

\* Lines 68-70 and 75-77: blobReader.onloadend resolves with the data URL.
blobReaderOnloadend(c) == resolve(c, DataURL(c.accepted))

\* Line 90: reader.onerror.
readerOnerror(c) == reject(c, ReadError)

\* img.onerror that reports the error but still starts the search loop.
imgOnerror_FallThrough(c) ==
    reject(tryCompress(c, InitialQuality, InitialAttempts), DecodeError)

\* Line 88: img.onerror.
imgOnerror(c) == reject(c, DecodeError)

\* Lines 10-13: the state right after compressImage(file, min, max) returns
\* its promise: the file read is in flight.
compressImage(w, h, minSizeKB, maxSizeKB) ==
    [pc |-> "read", imgWidth |-> w, imgHeight |-> h,
     minSizeKB |-> minSizeKB, maxSizeKB |-> maxSizeKB,
     canvasWidth |-> 0, canvasHeight |-> 0, drawn |-> FALSE,
     tries |-> <<>>, blobs |-> <<>>, accepted |-> NoBlob,
     settled |-> "pending", error |-> NoError, result |-> NoResult,
     settleCalls |-> 0]

\* ---------------------------------------------------------- a call alone
\* What the callback that took a call from c to `after` makes of a call d
\* that waits for the same callback: the handler is named by where c waits
\* and by what `after` records of the event (the error kind, the canvas
\* drawn, the blob measured).
SameCallback(d, c, after) ==
    IF c.pc = "read"
    THEN IF after.error.kind = "read" THEN readerOnerror(d)
         ELSE readerOnload(d)
    ELSE IF c.pc = "decode"
    THEN IF after.error.kind = "decode" THEN imgOnerror(d)
         ELSE imgOnload(d, after.drawn)
    ELSE IF c.pc = "encode"
    THEN toBlobCallback(d, after.blobs[Len(after.blobs)])
    ELSE IF c.pc = "blobRead"
    THEN blobReaderOnloadend(d)
    ELSE d

\* -------------------------------------------------------- calls together
\* Names of the compressImage calls that may be in flight together.
CallIds == {1, 2}

\* No call under this name: compressImage has not been invoked.
NoCall == [compressImage(0, 0, 0, 0) EXCEPT !.pc = "none"]

\* The canvas declared once outside compressImage instead of inside
\* img.onload: every call in flight draws on the same canvas.
inClosure_SharedCanvas(cs, i, c) ==
    [j \in DOMAIN cs |->
        IF j = i THEN c
        ELSE IF cs[j].pc \in {"encode", "blobRead"}
        THEN [cs[j] EXCEPT !.canvasWidth = c.canvasWidth,
                           !.canvasHeight = c.canvasHeight]
        ELSE cs[j]]

\* Lines 11-19 and 47: the FileReader, the Image, the canvas, width, height,
\* quality and attempts are locals of one call and its callbacks, so a
\* callback of call i leaves call i at c and writes nothing else.
inClosure(cs, i, c) == [cs EXCEPT ![i] = c]

\* Sizes the encoder reports to calls in flight together: one under the
\* lower bound, one on the upper bound, one over it.
CoarseBlobSizes(minSizeKB, maxSizeKB) ==
    { s \in { minSizeKB * BytesPerKB - 1, maxSizeKB * BytesPerKB } :
          s <= maxSizeKB * BytesPerKB }
        \cup { maxSizeKB * BytesPerKB + 1 }

\* Sources and windows of calls in flight together.
TwoSources == {<<500, 800>>, <<2000, 1000>>}
TwoWindows == {<<FormMinKB, FormMaxKB>>, <<1, 1>>}

\* ------------------------------------------------------------ student form
\* Values of student.studentImage and imagePreview that are no picture: the
\* empty string of initialStudentState (line 112) and null (line 125).
EmptyString == [mime |-> "", bytes |-> 0, length |-> 0]
Null == [mime |-> "null", bytes |-> 0, length |-> 0]
\* JavaScript truthiness of a string-or-null value.
Truthy(v) == v.length > 0
\* `v || null`
OrNull(v) == IF Truthy(v) THEN v ELSE Null

\* A photo stored with the student being edited.
StoredImage == DataURL(FormMinKB * BytesPerKB)

\* The property `message` of what compressImage rejected with.  Lines 22, 49
\* and 55 reject with an Error, whose message is its text; lines 88 and 90
\* reject with the event handed to onerror, and an event has no property
\* `message`: reading it gives undefined.
Undefined == [kind |-> "undefined", minSizeKB |-> 0, maxSizeKB |-> 0]
Message(err) ==
    IF err.kind \in {"read", "decode"} THEN Undefined ELSE err

\* Line 208, `{error && (...)}`: the form shows an error box only for a
\* truthy error; null and undefined show nothing.
ErrorShown(f) == f.error # NoError /\ f.error # Undefined

\* An upload of the form that is not in flight.
NoUpload == [awaiting |-> FALSE, student |-> EmptyString]

\* Lines 124-127 and the mount effect, lines 130-140: the form editing a
\* student whose stored photo is img (EmptyString for a new student).  The
\* text fields of `student` are empty as in initialStudentState; the marks
\* take part in no decision and are left out.  The file input (line 243)
\* holds the file chosen last: `selected` is the upload that file went to (0
\* when no file was chosen), and `fulfilled` says that its compressImage
\* promise has been fulfilled.
StudentForm(img) ==
    [mounted |-> TRUE, studentImage |-> img, imagePreview |-> OrNull(img),
     error |-> NoError, isCompressing |-> FALSE,
     uploads |-> [k \in CallIds |-> NoUpload],
     rollNumber |-> "", studentName |-> "", fatherName |-> "", dob |-> "",
     selected |-> 0, fulfilled |-> FALSE]

FormUnmounted == [StudentForm(EmptyString) EXCEPT !.mounted = FALSE]

\* Lines 163-169: handleImageChange up to its await.  The handler keeps the
\* `student` of the render it was created in for its catch block.
handleImageChange(f, k) ==
    [f EXCEPT !.error = NoError, !.isCompressing = TRUE,
              !.uploads[k] = [awaiting |-> TRUE, student |-> f.studentImage]]

\* Lines 170-178: handleImageChange after its await, the call c settled.
handleImageChangeSettled(f, k, c) ==
    LET done == [f EXCEPT !.uploads[k] = NoUpload, !.isCompressing = FALSE]
    IN  IF c.settled = "resolved"
        THEN [done EXCEPT !.studentImage = c.result,
                          !.imagePreview = c.result]
        ELSE [done EXCEPT !.error = Message(c.error),
                          !.imagePreview = OrNull(f.uploads[k].student)]

\* Lines 107-112: a student record, and initialStudentState.
Student(rollNumber, studentName, fatherName, dob, studentImage) ==
    [rollNumber |-> rollNumber, studentName |-> studentName,
     fatherName |-> fatherName, dob |-> dob, studentImage |-> studentImage]
initialStudentState == Student("", "", "", "", EmptyString)

\* The prop studentToEdit is <<>> for null and <<student>> for a student.
\* Lines 130-140: the form as its mount effect leaves it.
StudentFormFor(studentToEdit) ==
    IF studentToEdit = <<>>
    THEN StudentForm(initialStudentState.studentImage)
    ELSE LET st == studentToEdit[1]
         IN  [StudentForm(st.studentImage) EXCEPT
                 !.rollNumber = st.rollNumber, !.studentName = st.studentName,
                 !.fatherName = st.fatherName, !.dob = st.dob]

\* The `student` state of the form.
FormStudent(f) ==
    Student(f.rollNumber, f.studentName, f.fatherName, f.dob, f.studentImage)

\* What is typed into the text fields of the form.
FormValues ==
    [rollNumber |-> {"", "101", "102"}, studentName |-> {"", "Asha", "Bina"},
     fatherName |-> {"", "Ravi"}, dob |-> {"", "2010-05-01"}]

\* Lines 143-146: handleChange.
handleChange(f, name, value) == [f EXCEPT ![name] = value]

\* The two errors of handleSubmit, lines 188 and 193.
RollExistsError == [kind |-> "rollExists", minSizeKB |-> 0, maxSizeKB |-> 0]
DetailsMissingError ==
    [kind |-> "detailsMissing", minSizeKB |-> 0, maxSizeKB |-> 0]

\* handleSubmit without the check of lines 187-190.
handleSubmit_NoUniqueCheck(f, studentToEdit, existingRollNumbers) ==
    IF f.rollNumber = "" \/ f.studentName = "" \/ f.fatherName = ""
       \/ f.dob = ""
    THEN [f EXCEPT !.error = DetailsMissingError]
    ELSE [f EXCEPT !.error = NoError]

\* Lines 183-197: handleSubmit.  It calls onSave(student) exactly when it
\* leaves the error null.
handleSubmit(f, studentToEdit, existingRollNumbers) ==
    IF studentToEdit = <<>> /\ f.rollNumber \in existingRollNumbers
    THEN [f EXCEPT !.error = RollExistsError]
    ELSE IF f.rollNumber = "" \/ f.studentName = "" \/ f.fatherName = ""
            \/ f.dob = ""
    THEN [f EXCEPT !.error = DetailsMissingError]
    ELSE [f EXCEPT !.error = NoError]

\* ----------------------------------------------------------- student search
\* Names every plain JavaScript object answers to without having them as
\* keys of its own: `users[name]` finds a member of Object.prototype there.
\* Such a member is truthy and has no passwordHash, role or dob.
ObjectPrototypeKeys == {"constructor"}

\* Largest number generateCaptcha is followed for (the code draws 1 .. 10),
\* and the most captchas followed in one visit of the search page.
MaxCaptchaNum == 2
MaxCaptchas == 3

\* StudentSearch lines 13-23: the captchas generateCaptcha can return.
Captchas ==
    { [num1 |-> a, num2 |-> b, answer |-> a + b] :
          a \in 1 .. MaxCaptchaNum, b \in 1 .. MaxCaptchaNum }

\* A typed roll number: `lead` spaces, a text without spaces around it, and
\* `trail` spaces.
Typed(lead, text, trail) == [lead |-> lead, text |-> text, trail |-> trail]
\* `!rollNumber`: the empty string.
IsEmpty(t) == t.lead = 0 /\ t.text = "" /\ t.trail = 0
\* `rollNumber.trim()`
Trim(t) == t.text

RollNumberInputs ==
    { Typed(0, "", 0), Typed(0, "101", 0), Typed(1, "101", 1),
      Typed(0, "102", 0), Typed(1, "", 0), Typed(0, "constructor", 0) }
DobInputs == {"", "2010-05-01", "2011-06-02"}

\* The value of the captcha field is a sequence of characters; a field of
\* type number holds the empty string or the text of a number.
DigitValue ==
    [c \in {"0", "1", "2", "3", "4", "5", "6", "7", "8", "9"} |->
        IF c = "0" THEN 0 ELSE IF c = "1" THEN 1 ELSE IF c = "2" THEN 2
        ELSE IF c = "3" THEN 3 ELSE IF c = "4" THEN 4 ELSE IF c = "5" THEN 5
        ELSE IF c = "6" THEN 6 ELSE IF c = "7" THEN 7 ELSE IF c = "8" THEN 8
        ELSE 9]
IsDigit(c) == c \in DOMAIN DigitValue

CaptchaInputs ==
    { <<>>, <<"2">>, <<"3">>, <<"4">>, <<"2", "e", "1">>, <<"3", ".", "7">> }

\* The value no number equals.
NaN == -1

RECURSIVE DigitsValue(_, _)
\* The number written by the digits that cs starts with, after acc.
DigitsValue(cs, acc) ==
    IF cs = <<>> \/ ~IsDigit(Head(cs)) THEN acc
    ELSE DigitsValue(Tail(cs), 10 * acc + DigitValue[Head(cs)])

\* `parseInt(captchaInput, 10)`: the number written by the leading digits,
\* whatever follows them; NaN without a leading digit.
parseInt(cs) ==
    IF cs = <<>> \/ ~IsDigit(Head(cs)) THEN NaN ELSE DigitsValue(cs, 0)

\* StudentSearch lines 27-34 and the mount effect, lines 37-39: the page
\* with the captcha c; captchaNo counts the captchas generated.
StudentSearch(c) ==
    [mounted |-> TRUE, rollNumber |-> Typed(0, "", 0), dob |-> "",
     captchaInput |-> <<>>, error |-> "none", foundStudent |-> <<>>,
     captcha |-> c, captchaNo |-> 1]

SearchUnmounted ==
    [StudentSearch([num1 |-> 0, num2 |-> 0, answer |-> 0])
        EXCEPT !.mounted = FALSE, !.captchaNo = 0]

\* StudentSearch lines 119, 131 and 142: typing into the three fields.
setSearchField(sr, name, value) == [sr EXCEPT ![name] = value]

\* setCaptcha(generateCaptcha()); setCaptchaInput('')
regenerate(sr, c) ==
    [sr EXCEPT !.captcha = c, !.captchaNo = @ + 1, !.captchaInput = <<>>]

\* `students[key]`: the student stored under the key, a member of
\* Object.prototype, or undefined.
StudentAt(students, key) ==
    IF key \in DOMAIN students THEN students[key]
    ELSE IF key \in ObjectPrototypeKeys THEN [kind |-> "prototype member"]
    ELSE Undefined
\* `student.dob`
DobOf(student) ==
    IF "dob" \in DOMAIN student THEN student.dob ELSE "undefined"

\* StudentSearch lines 42-73: handleSearch; c is what generateCaptcha
\* returns if it is called.
handleSearch(sr, students, c) ==
    LET cleared == [sr EXCEPT !.error = "none", !.foundStudent = <<>>]
        key == Trim(sr.rollNumber)
    IN  IF IsEmpty(sr.rollNumber) \/ sr.dob = "" \/ sr.captchaInput = <<>>
        THEN [cleared EXCEPT !.error = "required"]
        ELSE IF parseInt(sr.captchaInput) # sr.captcha.answer
        THEN regenerate([cleared EXCEPT !.error = "captcha"], c)
        ELSE IF StudentAt(students, key) # Undefined
                /\ DobOf(StudentAt(students, key)) = sr.dob
        THEN regenerate([cleared EXCEPT !.foundStudent = <<students[key]>>],
                        c)
        ELSE regenerate([cleared EXCEPT !.error = "invalid"], c)

\* StudentSearch lines 76-81: handleNewSearch.
handleNewSearch(sr) ==
    [sr EXCEPT !.foundStudent = <<>>, !.rollNumber = Typed(0, "", 0),
               !.dob = "", !.error = "none"]

\* ------------------------------------------------------------- application
\* Longest audit log followed.
MaxLog == 3

\* loggedInUser === null.
NoUser == [username |-> "", passwordHash |-> "", role |-> "none"]

\* part_002 lines 38-41: the accounts initializeApp creates.
initialUsers ==
    [u \in {"headteacher", "teacher1"} |->
        IF u = "headteacher"
        THEN [username |-> u, passwordHash |-> "admin123",
              role |-> "HEAD_TEACHER"]
        ELSE [username |-> u, passwordHash |-> "teacher123",
              role |-> "TEACHER"]]

\* What is typed into the login form.
Usernames == {"headteacher", "teacher1", "teacher2", "constructor"}
Passwords == {"admin123", "teacher123", "pw2"}

\* The text of an audit log entry: a fixed text and, for the template
\* strings, the name or roll number put after it.
Action(text, about) == [text |-> text, about |-> about]

\* addAuditLog putting the entry at the end of the log.
logAs_AtEnd(a, user, action) ==
    [a EXCEPT !.auditLog = @ \o <<[user |-> user, action |-> action]>>]

\* part_002 lines 24-29: the entry addAuditLog builds and puts in front.
\* user is the `loggedInUser?.username || 'System'` of the addAuditLog the
\* caller holds.
logAs(a, user, action) ==
    [a EXCEPT !.auditLog = <<[user |-> user, action |-> action]>> \o @]

\* `loggedInUser?.username || 'System'`
LogUser(a) ==
    IF a.loggedInUser = NoUser \/ a.loggedInUser.username = ""
    THEN "System" ELSE a.loggedInUser.username

\* part_002 lines 23-30: addAuditLog as handed to the components by the
\* last render pass; its user is the loggedInUser of that pass.
addAuditLog(a, action) == logAs(a, LogUser(a), action)

\* The switch rendering a dashboard for its view whoever is logged in.
Screen_NoRoleCheck(a) ==
    IF a.isLoading THEN "Spinner"
    ELSE IF a.error THEN "InitError"
    ELSE IF a.view = "LOGIN" THEN "Login"
    ELSE IF a.view = "ADMIN_DASHBOARD" THEN "AdminDashboard"
    ELSE IF a.view = "TEACHER_DASHBOARD" THEN "TeacherDashboard"
    ELSE "StudentSearch"

\* part_002 lines 77-141: what one render pass of App returns.
Screen(a) ==
    IF a.isLoading THEN "Spinner"
    ELSE IF a.error THEN "InitError"
    ELSE IF a.view = "LOGIN" THEN "Login"
    ELSE IF a.view = "ADMIN_DASHBOARD"
    THEN IF a.loggedInUser.role = "HEAD_TEACHER" THEN "AdminDashboard"
         ELSE "Nothing"
    ELSE IF a.view = "TEACHER_DASHBOARD"
    THEN IF a.loggedInUser.role = "TEACHER" THEN "TeacherDashboard"
         ELSE "Nothing"
    ELSE "StudentSearch"

\* A render pass that returns null without calling setView, and no effect
\* after a pass.
render_NoFallback(a) ==
    [a EXCEPT !.screen = Screen(a), !.stale = FALSE]

\* One render pass of App.  A pass that returns null has called
\* setView(LOGIN) (lines 118-119 and 134-135), so another pass is due.  A
\* pass that returns a screen is committed and followed by the effect of
\* lines 70-74; the Login component keeps its error only while it stays
\* mounted, and so
\* does what is typed into it; the same holds for the two dashboards.
render(a) ==
    LET s == Screen(a)
        shown == [a EXCEPT !.screen = s,
                           !.loginError = IF s = "Login" THEN @ ELSE FALSE,
                           !.username = IF s = "Login" THEN @ ELSE "",
                           !.password = IF s = "Login" THEN @ ELSE "",
                           !.newUsername =
                               IF s = "AdminDashboard" THEN @ ELSE "",
                           !.newPassword =
                               IF s = "AdminDashboard" THEN @ ELSE "",
                           !.adminError =
                               IF s = "AdminDashboard" THEN @ ELSE "none",
                           !.isFormOpen =
                               IF s = "TeacherDashboard" THEN @ ELSE FALSE,
                           !.studentToEdit =
                               IF s = "TeacherDashboard" THEN @ ELSE <<>>]
    IN  IF s = "Nothing"
        THEN [shown EXCEPT !.view = "LOGIN", !.stale = TRUE]
        ELSE IF a.loggedInUser = NoUser
                /\ a.view \in {"ADMIN_DASHBOARD", "TEACHER_DASHBOARD"}
        THEN [shown EXCEPT !.view = "LOGIN", !.stale = TRUE]
        ELSE [shown EXCEPT !.stale = FALSE]

\* No signature file is being read.  While one is, the reader's onloadend
\* holds the addAuditLog of the render pass that started the read.
NoSigRead == [pending |-> FALSE, user |-> ""]

\* part_002 lines 13-20 and the first render pass: the spinner.  Besides
\* App's own state the record holds the state of the Login component
\* (username, password, loginError) and of the AdminDashboard component
\* (newUsername, newPassword, adminError, and the signature file read) and
\* of the TeacherDashboard component (isFormOpen, studentToEdit).  The state
\* of the StudentSearch component is in `search`; it is followed by the
\* search specification only.
App ==
    [mounted |-> TRUE, view |-> "STUDENT_SEARCH",
     users |-> [u \in {} |-> NoUser], loggedInUser |-> NoUser,
     auditLog |-> <<>>, isLoading |-> TRUE, error |-> FALSE,
     init |-> "mounted", screen |-> "Spinner", stale |-> FALSE,
     loginError |-> FALSE, username |-> "", password |-> "",
     principalSignature |-> Null, sigRead |-> NoSigRead,
     newUsername |-> "", newPassword |-> "", adminError |-> "none",
     students |-> <<>>, isFormOpen |-> FALSE, studentToEdit |-> <<>>,
     search |-> SearchUnmounted]

AppUnmounted == [App EXCEPT !.mounted = FALSE]

InitializedEntry ==
    [user |-> "System", action |-> Action("Application Initialized.", "")]

\* part_002 lines 33-50: initializeApp up to its await, or to its end when
\* there is no API key and nothing is awaited.
initializeApp(a, hasKey) ==
    IF hasKey
    THEN [a EXCEPT !.users = initialUsers, !.init = "awaiting",
                   !.stale = TRUE]
    ELSE [a EXCEPT !.users = initialUsers, !.init = "done",
                   !.auditLog = <<InitializedEntry>>,
                   !.isLoading = FALSE, !.stale = TRUE]

\* The students generateMockStudents returns, keyed by roll number as in
\* lines 48-51.
MockStudents ==
    [r \in {"101", "102"} |->
        IF r = "101"
        THEN Student(r, "Asha", "Ravi", "2010-05-01", EmptyString)
        ELSE Student(r, "Bina", "Ravi", "2011-06-02", EmptyString)]

\* part_002 lines 47-62: generateMockStudents settled.
initializeAppSettled(a, ok) ==
    IF ok
    THEN [a EXCEPT !.init = "done", !.students = MockStudents,
                   !.auditLog = <<InitializedEntry>>,
                   !.isLoading = FALSE, !.stale = TRUE]
    ELSE [a EXCEPT !.init = "done", !.error = TRUE,
                   !.isLoading = FALSE, !.stale = TRUE]

\* The view buttons: StudentSearch line 157 and Login line 105.
setView(a, v) == [a EXCEPT !.view = v, !.stale = TRUE]

\* Login (part_000) lines 14-15, 72 and 89: typing into the two fields.
setUsername(a, v) == [a EXCEPT !.username = v, !.stale = TRUE]
setPassword(a, v) == [a EXCEPT !.password = v, !.stale = TRUE]

\* handleLogin checking the username only.
handleLogin_AnyPassword(a, username, password) ==
    IF username \in DOMAIN a.users
    THEN [a EXCEPT !.loginError = FALSE,
                   !.loggedInUser = a.users[username],
                   !.view = IF a.users[username].role = "HEAD_TEACHER"
                            THEN "ADMIN_DASHBOARD" ELSE "TEACHER_DASHBOARD",
                   !.stale = TRUE]
    ELSE [a EXCEPT !.loginError = TRUE, !.stale = TRUE]

\* handleLogin without the redirect of lines 34-38.
handleLogin_NoRedirect(a, username, password) ==
    IF username \in DOMAIN a.users
       /\ a.users[username].passwordHash = password
    THEN [a EXCEPT !.loginError = FALSE,
                   !.loggedInUser = a.users[username], !.stale = TRUE]
    ELSE [a EXCEPT !.loginError = TRUE, !.stale = TRUE]

\* part_000 lines 17-42.  `users[username]` is an account for a key of the
\* map; for a key of Object.prototype it is truthy but its passwordHash is
\* undefined, which no typed password equals.
handleLogin(a, username, password) ==
    IF (username \in DOMAIN a.users \/ username \in ObjectPrototypeKeys)
       /\ username \in DOMAIN a.users
       /\ a.users[username].passwordHash = password
    THEN LET user == a.users[username]
         IN  [a EXCEPT !.loginError = FALSE, !.loggedInUser = user,
                       !.view = IF user.role = "HEAD_TEACHER"
                                THEN "ADMIN_DASHBOARD"
                                ELSE IF user.role = "TEACHER"
                                THEN "TEACHER_DASHBOARD"
                                ELSE @,
                       !.stale = TRUE]
    ELSE [a EXCEPT !.loginError = TRUE, !.stale = TRUE]

\* AdminDashboard lines 88-91 and TeacherDashboard (part_003) lines 156-159:
\* both log with the user of the current render and clear loggedInUser.
handleLogout(a) ==
    [addAuditLog(a, Action("Logged out", "")) EXCEPT !.loggedInUser = NoUser,
                                         !.stale = TRUE]

\* --------------------------------------------------------- admin dashboard
\* What is typed into the add-teacher form.
NewUsernames == {"", "teacher2", "headteacher", "constructor"}
NewPasswords == {"", "pw2"}

\* The signature picture files that can be chosen.
SignatureImage == DataURL(BytesPerKB)

\* AdminDashboard lines 37-38, 131 and 138: typing into the two fields.
setNewUsername(a, v) == [a EXCEPT !.newUsername = v, !.stale = TRUE]
setNewPassword(a, v) == [a EXCEPT !.newPassword = v, !.stale = TRUE]

\* The users map without the account named username.
WithoutUser(users, username) ==
    [u \in DOMAIN users \ {username} |-> users[u]]

\* The users map with the account t added or put in place of the account of
\* the same name: `{ ...prev, [newUsername]: newTeacher }`.
WithUser(users, t) ==
    [u \in DOMAIN users \cup {t.username} |->
        IF u = t.username THEN t ELSE users[u]]

\* handleAddTeacher without the check of lines 49-52.
handleAddTeacher_Overwrites(a) ==
    IF a.newUsername = "" \/ a.newPassword = ""
    THEN [a EXCEPT !.adminError = "required", !.stale = TRUE]
    ELSE [addAuditLog(a, Action("Created new teacher account: ",
                                a.newUsername))
             EXCEPT !.users = WithUser(@, [username |-> a.newUsername,
                                           passwordHash |-> a.newPassword,
                                           role |-> "TEACHER"]),
                    !.adminError = "none", !.newUsername = "",
                    !.newPassword = "", !.stale = TRUE]

\* AdminDashboard lines 42-62.  `users[newUsername]` is truthy for a key of
\* the map and for a key of Object.prototype.
handleAddTeacher(a) ==
    IF a.newUsername = "" \/ a.newPassword = ""
    THEN [a EXCEPT !.adminError = "required", !.stale = TRUE]
    ELSE IF a.newUsername \in DOMAIN a.users
            \/ a.newUsername \in ObjectPrototypeKeys
    THEN [a EXCEPT !.adminError = "exists", !.stale = TRUE]
    ELSE [addAuditLog(a, Action("Created new teacher account: ",
                                a.newUsername))
             EXCEPT !.users = WithUser(@, [username |-> a.newUsername,
                                           passwordHash |-> a.newPassword,
                                           role |-> "TEACHER"]),
                    !.adminError = "none", !.newUsername = "",
                    !.newPassword = "", !.stale = TRUE]

\* AdminDashboard line 94: the accounts listed with a delete button.
teacherUsers(a) == {u \in DOMAIN a.users : a.users[u].role = "TEACHER"}

\* AdminDashboard lines 65-72; confirmed is the answer to window.confirm.
handleDeleteUser(a, username, confirmed) ==
    IF confirmed
    THEN [addAuditLog(a, Action("Deleted user: ", username))
             EXCEPT !.users = WithoutUser(@, username), !.stale = TRUE]
    ELSE a

\* AdminDashboard lines 75-85 up to readAsDataURL: a file was chosen.
handleSignatureUpload(a) ==
    [a EXCEPT !.sigRead = [pending |-> TRUE, user |-> LogUser(a)]]

\* AdminDashboard lines 79-82: reader.onloadend, with the result of the read
\* (null when the read failed).
signatureOnloadend(a, result) ==
    [logAs(a, a.sigRead.user, Action("Updated principal signature.", ""))
        EXCEPT !.principalSignature = result, !.sigRead = NoSigRead,
               !.stale = TRUE]

\* ------------------------------------------------------- teacher dashboard
\* part_003 line 260: the prop existingRollNumbers of the form.
existingRollNumbers(a) ==
    DOMAIN a.students
        \ (IF a.studentToEdit = <<>> THEN {}
           ELSE {a.studentToEdit[1].rollNumber})

\* part_003 lines 117-120 and 122-125.
handleAddStudent(a) ==
    [a EXCEPT !.studentToEdit = <<>>, !.isFormOpen = TRUE, !.stale = TRUE]
handleEditStudent(a, student) ==
    [a EXCEPT !.studentToEdit = <<student>>, !.isFormOpen = TRUE,
              !.stale = TRUE]

\* The students map without the record under rollNumber.
WithoutStudent(students, rollNumber) ==
    [r \in DOMAIN students \ {rollNumber} |-> students[r]]

\* `{ ...prev, [student.rollNumber]: student }`
WithStudent(students, student) ==
    [r \in DOMAIN students \cup {student.rollNumber} |->
        IF r = student.rollNumber THEN student ELSE students[r]]

\* part_003 lines 128-135; confirmed is the answer to window.confirm.
handleDeleteStudent(a, rollNumber, confirmed) ==
    IF confirmed
    THEN [addAuditLog(a, Action("Deleted student record: ", rollNumber))
             EXCEPT !.students = WithoutStudent(@, rollNumber),
                    !.stale = TRUE]
    ELSE a

\* part_003 lines 138-147.
handleSaveStudent(a, student) ==
    [addAuditLog(a, Action(IF a.studentToEdit # <<>>
                           THEN "Updated student: "
                           ELSE "Added new student: ", student.rollNumber))
        EXCEPT !.students = WithStudent(@, student), !.isFormOpen = FALSE,
               !.studentToEdit = <<>>, !.stale = TRUE]

\* part_003 lines 150-153.
handleCancel(a) ==
    [a EXCEPT !.isFormOpen = FALSE, !.studentToEdit = <<>>, !.stale = TRUE]

\* part_003 lines 255-262: a render pass of the dashboard mounts the form
\* when isFormOpen has become true and unmounts it when it is false; a
\* mounted form keeps its state.
formAfterRender(a, f) ==
    IF a.screen = "TeacherDashboard" /\ a.isFormOpen
    THEN IF f.mounted THEN f ELSE StudentFormFor(a.studentToEdit)
    ELSE FormUnmounted

\* ----------------------------------------------------------------- actions
\* Nothing but the one call: no other call is in flight and neither the
\* student form nor the App component is mounted.
OneCallOnly ==
    /\ calls = [i \in CallIds |-> NoCall]
    /\ form = FormUnmounted
    /\ app = AppUnmounted

Init ==
    /\ \E src \in SourceSizes, win \in Windows :
           call = compressImage(src[1], src[2], win[1], win[2])
    /\ round = 0
    /\ OneCallOnly

\* Line 14: the file was read; line 16 starts decoding it.
ReaderOnload ==
    /\ call.pc = "read"
    /\ call' = readerOnload(call)
    /\ UNCHANGED <<round, calls, form, app>>

ReaderOnerror ==
    /\ call.pc = "read"
    /\ call' = readerOnerror(call)
    /\ UNCHANGED <<round, calls, form, app>>

ImgOnerror ==
    /\ call.pc = "decode"
    /\ call' = imgOnerror(call)
    /\ UNCHANGED <<round, calls, form, app>>

ImgOnload ==
    /\ call.pc = "decode"
    /\ \E hasCtx \in BOOLEAN : call' = imgOnload(call, hasCtx)
    /\ UNCHANGED <<round, calls, form, app>>

ToBlobCallback ==
    /\ call.pc = "encode"
    /\ \E blob \in {NoBlob} \cup BlobSizes(call.minSizeKB, call.maxSizeKB) :
           call' = toBlobCallback(call, blob)
    /\ UNCHANGED <<round, calls, form, app>>

\* Lines 68-70 and 75-77.
BlobReaderOnloadend ==
    /\ call.pc = "blobRead"
    /\ call' = blobReaderOnloadend(call)
    /\ UNCHANGED <<round, calls, form, app>>

\* The caller compresses the accepted output again with the same window: the
\* new source is the JPEG drawn from the canvas, so it has the canvas size.
Recompress ==
    /\ call.settled = "resolved"
    /\ round < MaxRecompress
    /\ call.canvasWidth > 0 /\ call.canvasHeight > 0
    /\ call' = compressImage(call.canvasWidth, call.canvasHeight,
                             call.minSizeKB, call.maxSizeKB)
    /\ round' = round + 1
    /\ UNCHANGED <<calls, form, app>>

Next ==
    \/ ReaderOnload
    \/ ReaderOnerror
    \/ ImgOnerror
    \/ ImgOnload
    \/ ToBlobCallback
    \/ BlobReaderOnloadend
    \/ Recompress

Spec == Init /\ [][Next]_vars

\* Some callback of the call.
Callback ==
    \/ ReaderOnload
    \/ ReaderOnerror
    \/ ImgOnerror
    \/ ImgOnload
    \/ ToBlobCallback
    \/ BlobReaderOnloadend

\* The browser completes every step it has started: a pending file read,
\* image decode, encode or blob read eventually fires one of its callbacks.
LiveSpec ==
    /\ Spec
    /\ WF_vars(ReaderOnload \/ ReaderOnerror)
    /\ WF_vars(ImgOnload \/ ImgOnerror)
    /\ WF_vars(ToBlobCallback)
    /\ WF_vars(BlobReaderOnloadend)

\* The resize step alone, over a wide range of source sizes: one call per
\* source size, followed up to the first encode.
InitResize ==
    /\ \E w \in Dims, h \in Dims :
           call = compressImage(w, h, FormMinKB, FormMaxKB)
    /\ round = 0
    /\ OneCallOnly

NextResize ==
    \/ ReaderOnload
    \/ ImgOnload

SpecResize == InitResize /\ [][NextResize]_vars

\* ------------------------------------------- actions: calls in flight together
\* No single call is followed: the calls are those of `calls`.
NoSingleCall ==
    /\ call = NoCall
    /\ round = 0

InitTwo ==
    /\ NoSingleCall
    /\ calls = [i \in CallIds |-> NoCall]
    /\ form = FormUnmounted
    /\ app = AppUnmounted

\* Lines 10-13: some caller invokes compressImage.
StartCall ==
    /\ \E i \in CallIds, src \in TwoSources, win \in TwoWindows :
           /\ calls[i].pc = "none"
           /\ calls' = inClosure(calls, i,
                           compressImage(src[1], src[2], win[1], win[2]))
    /\ UNCHANGED <<call, round, form, app>>

CallReaderOnload ==
    /\ \E i \in CallIds :
           /\ calls[i].pc = "read"
           /\ calls' = inClosure(calls, i, readerOnload(calls[i]))
    /\ UNCHANGED <<call, round, form, app>>

CallReaderOnerror ==
    /\ \E i \in CallIds :
           /\ calls[i].pc = "read"
           /\ calls' = inClosure(calls, i, readerOnerror(calls[i]))
    /\ UNCHANGED <<call, round, form, app>>

CallImgOnerror ==
    /\ \E i \in CallIds :
           /\ calls[i].pc = "decode"
           /\ calls' = inClosure(calls, i, imgOnerror(calls[i]))
    /\ UNCHANGED <<call, round, form, app>>

CallImgOnload ==
    /\ \E i \in CallIds, hasCtx \in BOOLEAN :
           /\ calls[i].pc = "decode"
           /\ calls' = inClosure(calls, i, imgOnload(calls[i], hasCtx))
    /\ UNCHANGED <<call, round, form, app>>

CallToBlobCallback ==
    /\ \E i \in CallIds :
           /\ calls[i].pc = "encode"
           /\ \E blob \in {NoBlob} \cup CoarseBlobSizes(calls[i].minSizeKB,
                                                       calls[i].maxSizeKB) :
                  calls' = inClosure(calls, i, toBlobCallback(calls[i], blob))
    /\ UNCHANGED <<call, round, form, app>>

CallBlobReaderOnloadend ==
    /\ \E i \in CallIds :
           /\ calls[i].pc = "blobRead"
           /\ calls' = inClosure(calls, i, blobReaderOnloadend(calls[i]))
    /\ UNCHANGED <<call, round, form, app>>

\* Some callback of some call in flight.
CallCallback ==
    \/ CallReaderOnload
    \/ CallReaderOnerror
    \/ CallImgOnerror
    \/ CallImgOnload
    \/ CallToBlobCallback
    \/ CallBlobReaderOnloadend

NextTwo ==
    \/ StartCall
    \/ CallReaderOnload
    \/ CallReaderOnerror
    \/ CallImgOnerror
    \/ CallImgOnload
    \/ CallToBlobCallback
    \/ CallBlobReaderOnloadend

SpecTwo == InitTwo /\ [][NextTwo]_vars

\* ------------------------------------------------- actions: student form
\* The source picture of the files chosen in the form.
FormSource == <<2000, 1000>>

InitForm ==
    /\ NoSingleCall
    /\ calls = [i \in CallIds |-> NoCall]
    /\ \E img \in {EmptyString, StoredImage} : form = StudentForm(img)
    /\ app = AppUnmounted

\* Lines 163-169: a file is chosen; line 169 invokes compressImage.  The file
\* input (line 243) stays enabled while a compression is in flight.
HandleImageChange ==
    /\ form.mounted
    /\ \E k \in CallIds :
           /\ calls[k].pc = "none"
           /\ form' = [handleImageChange(form, k) EXCEPT
                         !.selected = k, !.fulfilled = FALSE]
           /\ calls' = inClosure(calls, k,
                           compressImage(FormSource[1], FormSource[2],
                                         FormMinKB, FormMaxKB))
    /\ UNCHANGED <<call, round, app>>

\* Lines 170-178: the awaited promise has settled and the handler goes on.
HandleImageChangeSettled ==
    /\ \E k \in CallIds :
           /\ form.uploads[k].awaiting
           /\ calls[k].pc = "done"
           /\ form' = [handleImageChangeSettled(form, k, calls[k]) EXCEPT
                         !.fulfilled = IF k = form.selected
                                       THEN calls[k].settled = "resolved"
                                       ELSE @]
           /\ calls' = inClosure(calls, k, NoCall)
    /\ UNCHANGED <<call, round, app>>

NextForm ==
    \/ HandleImageChange
    \/ HandleImageChangeSettled
    \/ CallReaderOnload
    \/ CallReaderOnerror
    \/ CallImgOnerror
    \/ CallImgOnload
    \/ CallToBlobCallback
    \/ CallBlobReaderOnloadend

SpecForm == InitForm /\ [][NextForm]_vars

\* --------------------------------------------------- actions: application
InitApp ==
    /\ NoSingleCall
    /\ calls = [i \in CallIds |-> NoCall]
    /\ form = FormUnmounted
    /\ app = App

\* React renders again when state has changed, before any other event.
Render ==
    /\ app.stale
    /\ app' = render(app)
    /\ form' = formAfterRender(app', form)
    /\ UNCHANGED <<call, round, calls>>

InitializeApp ==
    /\ app.mounted /\ ~app.stale
    /\ app.init = "mounted"
    /\ \E hasKey \in BOOLEAN : app' = initializeApp(app, hasKey)
    /\ UNCHANGED <<call, round, calls, form>>

InitializeAppSettled ==
    /\ ~app.stale
    /\ app.init = "awaiting"
    /\ \E ok \in BOOLEAN : app' = initializeAppSettled(app, ok)
    /\ UNCHANGED <<call, round, calls, form>>

\* StudentSearch line 157.
GoToLogin ==
    /\ ~app.stale
    /\ app.screen = "StudentSearch"
    /\ app' = setView(app, "LOGIN")
    /\ UNCHANGED <<call, round, calls, form>>

\* Login (part_000) line 105.
BackToSearch ==
    /\ ~app.stale
    /\ app.screen = "Login"
    /\ app' = setView(app, "STUDENT_SEARCH")
    /\ UNCHANGED <<call, round, calls, form>>

SetUsername ==
    /\ ~app.stale
    /\ app.screen = "Login"
    /\ \E v \in Usernames : app' = setUsername(app, v)
    /\ UNCHANGED <<call, round, calls, form>>

SetPassword ==
    /\ ~app.stale
    /\ app.screen = "Login"
    /\ \E v \in Passwords : app' = setPassword(app, v)
    /\ UNCHANGED <<call, round, calls, form>>

HandleLogin ==
    /\ ~app.stale
    /\ app.screen = "Login"
    /\ app' = handleLogin(app, app.username, app.password)
    /\ UNCHANGED <<call, round, calls, form>>

SetNewUsername ==
    /\ ~app.stale
    /\ app.screen = "AdminDashboard"
    /\ \E v \in NewUsernames : app' = setNewUsername(app, v)
    /\ UNCHANGED <<call, round, calls, form>>

SetNewPassword ==
    /\ ~app.stale
    /\ app.screen = "AdminDashboard"
    /\ \E v \in NewPasswords : app' = setNewPassword(app, v)
    /\ UNCHANGED <<call, round, calls, form>>

HandleAddTeacher ==
    /\ ~app.stale
    /\ app.screen = "AdminDashboard"
    /\ Len(app.auditLog) < MaxLog
    /\ app' = handleAddTeacher(app)
    /\ UNCHANGED <<call, round, calls, form>>

HandleDeleteUser ==
    /\ ~app.stale
    /\ app.screen = "AdminDashboard"
    /\ Len(app.auditLog) < MaxLog
    /\ \E username \in teacherUsers(app), confirmed \in BOOLEAN :
           app' = handleDeleteUser(app, username, confirmed)
    /\ UNCHANGED <<call, round, calls, form>>

\* One signature file is read at a time.
HandleSignatureUpload ==
    /\ ~app.stale
    /\ app.screen = "AdminDashboard"
    /\ ~app.sigRead.pending
    /\ app' = handleSignatureUpload(app)
    /\ UNCHANGED <<call, round, calls, form>>

\* The read of the signature file ends, whatever screen is shown by then.
SignatureOnloadend ==
    /\ ~app.stale
    /\ app.sigRead.pending
    /\ Len(app.auditLog) < MaxLog
    /\ \E result \in {SignatureImage, Null} :
           app' = signatureOnloadend(app, result)
    /\ UNCHANGED <<call, round, calls, form>>

AdminLogout ==
    /\ ~app.stale
    /\ app.screen = "AdminDashboard"
    /\ Len(app.auditLog) < MaxLog
    /\ app' = handleLogout(app)
    /\ UNCHANGED <<call, round, calls, form>>

\* The student form is a modal overlay over the whole window (line 200,
\* `fixed inset-0`): the controls of the dashboard are used while it is
\* closed, those of the form while it is open.
HandleAddStudent ==
    /\ ~app.stale
    /\ app.screen = "TeacherDashboard"
    /\ ~app.isFormOpen
    /\ app' = handleAddStudent(app)
    /\ UNCHANGED <<call, round, calls, form>>

HandleEditStudent ==
    /\ ~app.stale
    /\ app.screen = "TeacherDashboard"
    /\ ~app.isFormOpen
    /\ \E r \in DOMAIN app.students :
           app' = handleEditStudent(app, app.students[r])
    /\ UNCHANGED <<call, round, calls, form>>

HandleDeleteStudent ==
    /\ ~app.stale
    /\ app.screen = "TeacherDashboard"
    /\ ~app.isFormOpen
    /\ Len(app.auditLog) < MaxLog
    /\ \E r \in DOMAIN app.students, confirmed \in BOOLEAN :
           app' = handleDeleteStudent(app, r, confirmed)
    /\ UNCHANGED <<call, round, calls, form>>

\* The roll number field is disabled while a student is edited (line 221).
HandleChange ==
    /\ ~app.stale
    /\ app.isFormOpen /\ form.mounted
    /\ \E name \in DOMAIN FormValues :
           /\ name = "rollNumber" => app.studentToEdit = <<>>
           /\ \E value \in FormValues[name] :
                  form' = handleChange(form, name, value)
    /\ UNCHANGED <<call, round, calls, app>>

\* Lines 183-197 and, through onSave, part_003 lines 138-147.
HandleSubmit ==
    /\ ~app.stale
    /\ app.isFormOpen /\ form.mounted
    /\ Len(app.auditLog) < MaxLog
    /\ form' = handleSubmit(form, app.studentToEdit, existingRollNumbers(app))
    /\ app' = IF form'.error = NoError
              THEN handleSaveStudent(app, FormStudent(form))
              ELSE app
    /\ UNCHANGED <<call, round, calls>>

HandleCancel ==
    /\ ~app.stale
    /\ app.isFormOpen /\ form.mounted
    /\ app' = handleCancel(app)
    /\ UNCHANGED <<call, round, calls, form>>

TeacherLogout ==
    /\ ~app.stale
    /\ app.screen = "TeacherDashboard"
    /\ ~app.isFormOpen
    /\ Len(app.auditLog) < MaxLog
    /\ app' = handleLogout(app)
    /\ UNCHANGED <<call, round, calls, form>>

NextApp ==
    \/ Render
    \/ InitializeApp
    \/ InitializeAppSettled
    \/ GoToLogin
    \/ BackToSearch
    \/ SetUsername
    \/ SetPassword
    \/ HandleLogin
    \/ SetNewUsername
    \/ SetNewPassword
    \/ HandleAddTeacher
    \/ HandleDeleteUser
    \/ HandleSignatureUpload
    \/ SignatureOnloadend
    \/ AdminLogout
    \/ HandleAddStudent
    \/ HandleEditStudent
    \/ HandleDeleteStudent
    \/ HandleChange
    \/ HandleSubmit
    \/ HandleCancel
    \/ TeacherLogout

SpecApp == InitApp /\ [][NextApp]_vars

\* React carries out every render pass that is due.
LiveSpecApp == SpecApp /\ WF_vars(Render)

\* ------------------------------------------------ actions: student search
\* The application once initializeApp is over and the search page is shown:
\* with the mock students, or with none when there is no API key.
ReadyApps ==
    { render(initializeAppSettled(render(initializeApp(App, TRUE)), TRUE)),
      render(initializeApp(App, FALSE)) }

\* The search page has just been mounted, with any captcha.
InitSearch ==
    /\ NoSingleCall
    /\ calls = [i \in CallIds |-> NoCall]
    /\ form = FormUnmounted
    /\ \E a \in ReadyApps, c \in Captchas :
           app = [a EXCEPT !.search = StudentSearch(c)]

\* The search form is on the page: the marksheet replaces it while a student
\* is shown (line 84).
SearchFormShown ==
    /\ app.screen = "StudentSearch"
    /\ app.search.mounted
    /\ app.search.foundStudent = <<>>

\* StudentSearch line 119.
SetRollNumber ==
    /\ SearchFormShown
    /\ \E v \in RollNumberInputs :
           app' = [app EXCEPT
                     !.search = setSearchField(@, "rollNumber", v)]
    /\ UNCHANGED <<call, round, calls, form>>

\* StudentSearch line 131.
SetDob ==
    /\ SearchFormShown
    /\ \E v \in DobInputs :
           app' = [app EXCEPT !.search = setSearchField(@, "dob", v)]
    /\ UNCHANGED <<call, round, calls, form>>

\* StudentSearch line 142.
SetCaptchaInput ==
    /\ SearchFormShown
    /\ \E v \in CaptchaInputs :
           app' = [app EXCEPT
                     !.search = setSearchField(@, "captchaInput", v)]
    /\ UNCHANGED <<call, round, calls, form>>

\* StudentSearch line 106: the form is submitted.
HandleSearch ==
    /\ SearchFormShown
    /\ app.search.captchaNo < MaxCaptchas
    /\ \E c \in Captchas :
           app' = [app EXCEPT
                     !.search = handleSearch(@, app.students, c)]
    /\ UNCHANGED <<call, round, calls, form>>

\* StudentSearch line 89: the marksheet's button for a new search.
HandleNewSearch ==
    /\ app.screen = "StudentSearch"
    /\ app.search.mounted
    /\ app.search.foundStudent # <<>>
    /\ app' = [app EXCEPT !.search = handleNewSearch(@)]
    /\ UNCHANGED <<call, round, calls, form>>

NextSearch ==
    \/ SetRollNumber
    \/ SetDob
    \/ SetCaptchaInput
    \/ HandleSearch
    \/ HandleNewSearch

SpecSearch == InitSearch /\ [][NextSearch]_vars

\* ------------------------------------------------------------ vocabulary
\* Encode attempts started so far: tryCompress activations that reached toBlob.
EncodeTries(c) == SelectSeq(c.tries, LAMBDA t : t.attempts > 0)
NumEncodes(c) == Len(EncodeTries(c))

TypeOK ==
    /\ call.pc \in {"read", "decode", "encode", "blobRead", "done"}
    /\ call.settled \in {"pending", "resolved", "rejected"}
    /\ round \in 0 .. MaxRecompress
\* ------------------------------------------------------------ search loop
\* The measured blob b is over the upper bound of call c.
Oversize(c, b) == b # NoBlob /\ b > c.maxSizeKB * 1024

\* The measured blob b is not over the upper bound of call c.
Fits(c, b) == b # NoBlob /\ b <= c.maxSizeKB * 1024

AllBlobsReturned(c) == \A i \in 1 .. Len(c.blobs) : c.blobs[i] # NoBlob

\* C1: when decoding succeeded and the encoder always returned a blob, a
\* finished call either succeeded with the last measured blob, whose size is
\* <= maxSizeKB, or was rejected after all 10 attempts measured a size
\* > maxSizeKB; so a size <= maxSizeKB within the 10 attempts always ends in
\* success, and a call that has measured such a size is never rejected.
C1_FitWithinBudgetSucceeds ==
    /\ (call.pc = "done" /\ call.tries # <<>> /\ AllBlobsReturned(call)) =>
          \/ /\ call.settled = "resolved"
             /\ call.result.mime = "image/jpeg"
             /\ call.result.bytes = call.blobs[Len(call.blobs)]
             /\ call.result.bytes <= call.maxSizeKB * 1024
          \/ /\ call.settled = "rejected"
             /\ Len(call.blobs) = 10
             /\ \A i \in 1 .. 10 : Oversize(call, call.blobs[i])
    /\ (\E i \in 1 .. Len(call.blobs) : Fits(call, call.blobs[i])) =>
          call.settled # "rejected"

\* The tenth and last attempt fits and the call has succeeded with it.
C1_Witness ==
    /\ call.pc = "done" /\ call.settled = "resolved"
    /\ Len(call.blobs) = 10
    /\ call.result.bytes <= call.maxSizeKB * 1024

\* C2: when all 10 attempts measured a size > maxSizeKB the call is rejected
\* with the size error naming the requested minSizeKB and maxSizeKB, never
\* resolved; and the size error occurs only then, with the budget at 0.
C2_AllOversizeFails ==
    /\ (Len(call.blobs) = 10
            /\ \A i \in 1 .. 10 : Oversize(call, call.blobs[i])) =>
          /\ call.pc = "done" /\ call.settled = "rejected"
          /\ call.error = [kind |-> "size", minSizeKB |-> call.minSizeKB,
                           maxSizeKB |-> call.maxSizeKB]
          /\ call.result = NoResult
    /\ call.error.kind = "size" =>
          /\ call.settled = "rejected"
          /\ call.tries[Len(call.tries)].attempts = 0
          /\ Len(call.blobs) = 10
          /\ \A i \in 1 .. 10 : Oversize(call, call.blobs[i])

\* Ten oversized attempts, rejected, with two different bounds to name.
C2_Witness ==
    /\ call.settled = "rejected" /\ call.error.kind = "size"
    /\ Len(call.blobs) = 10
    /\ call.error.minSizeKB = 20 /\ call.error.maxSizeKB = 50

\* C3: for a window with minSizeKB <= maxSizeKB, an attempt that measures a
\* size < minSizeKB is the last one: the blob is accepted, the call is not
\* rejected, no later tryCompress activation or encode follows (so quality is
\* never raised), and the call resolves with that blob; an undersized first
\* attempt means exactly one encode.
C3_AcceptUndersized ==
    \A i \in 1 .. Len(call.blobs) :
        (/\ call.minSizeKB <= call.maxSizeKB
         /\ call.blobs[i] # NoBlob
         /\ call.blobs[i] < call.minSizeKB * 1024) =>
            /\ i = Len(call.blobs)
            /\ Len(call.tries) = i
            /\ NumEncodes(call) = i
            /\ call.accepted = call.blobs[i]
            /\ call.pc \in {"blobRead", "done"}
            /\ call.settled # "rejected"
            /\ call.pc = "done" =>
                  /\ call.settled = "resolved"
                  /\ call.result.bytes = call.blobs[i]

\* The first attempt, at quality 0.9, is undersized and the call succeeded.
C3_Witness ==
    /\ call.pc = "done" /\ call.settled = "resolved"
    /\ call.minSizeKB <= call.maxSizeKB
    /\ Len(call.blobs) = 1
    /\ call.blobs[1] < call.minSizeKB * 1024
    /\ call.tries = <<[quality |-> 9, attempts |-> 10]>>

\* C4: the k-th tryCompress activation has quality 0.9 - 0.1*(k-1) (in
\* tenths: 9 - (k-1)) and 10 - (k-1) remaining attempts, so both fall by one
\* step per attempt; at most 10 encodes are started, and an encode is started
\* only after all earlier ones were measured.
C4_QualitySequence ==
    /\ \A k \in 1 .. Len(call.tries) :
          /\ call.tries[k].quality = 9 - (k - 1)
          /\ call.tries[k].attempts = 10 - (k - 1)
    /\ NumEncodes(call) <= 10
    /\ Len(call.blobs) <= NumEncodes(call)
    /\ NumEncodes(call) <= Len(call.blobs) + 1

\* The tenth encode is in flight, at quality 0.0 with one attempt left.
C4_Witness ==
    /\ call.pc = "encode"
    /\ NumEncodes(call) = 10
    /\ call.tries[10] = [quality |-> 0, attempts |-> 1]

\* C5: every quality handed to the encoder is within [0.0, 1.0] (0 .. 10 in
\* tenths), also when an accepted output is compressed again with the same
\* window.
C5_QualityInRange ==
    \A k \in 1 .. Len(call.tries) :
        call.tries[k].attempts > 0 =>
            (0 <= call.tries[k].quality /\ call.tries[k].quality <= 10)

\* A recompression of an accepted output reaches its tenth encode.
C5_Witness ==
    /\ round = 1
    /\ call.pc = "encode"
    /\ NumEncodes(call) = 10
    /\ call.tries[10].quality = 0

\* C6: a read or decode error rejects the call in the same step: it is
\* settled as rejected with no tryCompress activation, no encode and no
\* measured blob, and the canvas untouched.
C6_DecodeFailureNoAttempt ==
    call.error.kind \in {"read", "decode"} =>
        /\ call.pc = "done" /\ call.settled = "rejected"
        /\ call.tries = <<>> /\ call.blobs = <<>>
        /\ ~call.drawn
        /\ call.result = NoResult

\* The image failed to decode after the file was read.
C6_Witness ==
    /\ call.error.kind = "decode"
    /\ call.settled = "rejected"

\* C7: a null blob is the last thing a call measures: the call is rejected
\* with the encode error at that attempt, and no later tryCompress activation
\* or encode follows, whatever the quality and budget were.
C7_NullBlobFatal ==
    \A i \in 1 .. Len(call.blobs) :
        call.blobs[i] = NoBlob =>
            /\ i = Len(call.blobs)
            /\ Len(call.tries) = i
            /\ NumEncodes(call) = i
            /\ call.pc = "done" /\ call.settled = "rejected"
            /\ call.error = EncodeError

\* The encoder returns no blob on the fifth attempt.
C7_Witness ==
    /\ Len(call.blobs) = 5
    /\ call.blobs[5] = NoBlob
    /\ call.tries[5] = [quality |-> 5, attempts |-> 6]
    /\ call.settled = "rejected"

\* ----------------------------------------------------------- resize step
\* C8: the canvas is never wider or higher than the source, and a 2000x1000
\* source gets a 1024x512 canvas.
C8_ResizeNeverEnlarges ==
    call.drawn =>
        /\ call.canvasWidth <= call.imgWidth
        /\ call.canvasHeight <= call.imgHeight
        /\ (call.imgWidth = 2000 /\ call.imgHeight = 1000) =>
              (call.canvasWidth = 1024 /\ call.canvasHeight = 512)

C8_Witness ==
    /\ call.drawn
    /\ call.imgWidth = 2000 /\ call.imgHeight = 1000
    /\ call.canvasWidth = 1024 /\ call.canvasHeight = 512

\* C9 as stated: a 500x800 source gets a 640x1024 canvas.
C9_Original ==
    (call.drawn /\ call.imgWidth = 500 /\ call.imgHeight = 800) =>
        (call.canvasWidth = 640 /\ call.canvasHeight = 1024)

\* C9, amended: a 500x800 source has no dimension over 1024 and keeps its
\* size, 500x800; the height-bound path scales only a height over 1024, as
\* for a 1000x1600 source, which gets a 640x1024 canvas.
C9_HeightBoundPath ==
    call.drawn =>
        /\ (call.imgWidth = 500 /\ call.imgHeight = 800) =>
              (call.canvasWidth = 500 /\ call.canvasHeight = 800)
        /\ (call.imgWidth = 1000 /\ call.imgHeight = 1600) =>
              (call.canvasWidth = 640 /\ call.canvasHeight = 1024)

C9_Witness ==
    /\ call.drawn
    /\ call.imgWidth = 500 /\ call.imgHeight = 800
    /\ call.canvasWidth = 500 /\ call.canvasHeight = 800

\* C10: the canvas is within 1024x1024 for every source, square ones
\* included; a larger source dimension over 1024 becomes exactly 1024 and the
\* other dimension is the source's times 1024/larger, to within one pixel.
C10_WithinBoundingBox ==
    call.drawn =>
        LET w == call.imgWidth
            h == call.imgHeight
            cw == call.canvasWidth
            ch == call.canvasHeight
        IN  /\ cw <= 1024 /\ ch <= 1024
            /\ (w > h /\ w > 1024) =>
                  /\ cw = 1024
                  /\ ch * w <= h * 1024
                  /\ h * 1024 <= (ch + 1) * w
            /\ (w <= h /\ h > 1024) =>
                  /\ ch = 1024
                  /\ cw * h <= w * 1024
                  /\ w * 1024 <= (cw + 1) * h

\* A square source over the bound, scaled through the height branch.
C10_Witness ==
    /\ call.drawn
    /\ call.imgWidth = 2048 /\ call.imgHeight = 2048
    /\ call.canvasWidth = 1024 /\ call.canvasHeight = 1024

\* C11: the canvas keeps the source's aspect ratio to within one pixel of one
\* dimension: canvasWidth * h and canvasHeight * w are equal when nothing is
\* scaled, and otherwise differ by at most the larger source dimension, the
\* scaled dimension being the one rounded down.
C11_AspectRatioKept ==
    call.drawn =>
        LET w == call.imgWidth
            h == call.imgHeight
            cw == call.canvasWidth
            ch == call.canvasHeight
        IN  /\ (w <= 1024 /\ h <= 1024) => cw * h = ch * w
            /\ (w > h /\ w > 1024) =>
                  (0 <= cw * h - ch * w /\ cw * h - ch * w <= w)
            /\ (w <= h /\ h > 1024) =>
                  (0 <= ch * w - cw * h /\ ch * w - cw * h <= h)

\* A scaled source whose scaled height is a full pixel below 1024*h/w.
C11_Witness ==
    /\ call.drawn
    /\ call.imgWidth = 1122 /\ call.imgHeight = 561
    /\ call.canvasWidth = 1024 /\ call.canvasHeight = 511

\* ------------------------------------------------- termination and outcome
\* C12: when every started step completes, a call that is not finished always
\* has a callback pending and eventually is finished (settled).
C12_EventuallySettles ==
    /\ [](call.pc # "done" => ENABLED Callback)
    /\ (call.pc # "done") ~> (call.pc = "done" /\ call.settled # "pending")

\* The loop ran to exhaustion: ten oversized attempts, then the rejection.
C12_Witness ==
    /\ call.pc = "done" /\ call.settled = "rejected"
    /\ Len(call.blobs) = 10 /\ Len(call.tries) = 11

\* C13: a call calls resolve or reject at most once, and exactly once when it
\* is finished; a rejected call carries an error and no result, a resolved
\* call a result and no error, and an unfinished call neither.
C13_SingleOutcome ==
    /\ call.settleCalls <= 1
    /\ call.pc = "done" <=> call.settled # "pending"
    /\ call.settled # "pending" <=> call.settleCalls = 1
    /\ call.settled = "pending" =>
          (call.result = NoResult /\ call.error = NoError)
    /\ call.settled = "rejected" =>
          (call.result = NoResult /\ call.error # NoError)
    /\ call.settled = "resolved" =>
          (call.result # NoResult /\ call.error = NoError)

\* A call rejected for a missing canvas context, and nothing after it.
C13_Witness ==
    /\ call.settled = "rejected"
    /\ call.error = ContextError
    /\ call.settleCalls = 1
    /\ call.result = NoResult

\* C14: at most one encode is outstanding, and only while the call waits for
\* the encoder; tryCompress activation k+1 exists only after the blob of
\* attempt k was measured and found > maxSizeKB.
C14_OneEncodeAtATime ==
    /\ NumEncodes(call) - Len(call.blobs) \in {0, 1}
    /\ call.pc = "encode" <=> NumEncodes(call) = Len(call.blobs) + 1
    /\ \A k \in 1 .. Len(call.tries) - 1 :
          /\ k <= Len(call.blobs)
          /\ Oversize(call, call.blobs[k])

\* The fourth encode is outstanding after three measured attempts.
C14_Witness ==
    /\ call.pc = "encode"
    /\ Len(call.tries) = 4
    /\ Len(call.blobs) = 3

\* ------------------------------------------------------ accept and retry
\* C15: two compressImage calls in flight together share no state.  Under
\* every interleaving, a step changes one call only, and it leaves that call
\* where the same callback with the same input leaves it when the call runs
\* alone: quality, attempts, canvas and outcome depend on the call's own
\* closure and on nothing of the other call.
C15_CallsShareNothing ==
    [][\A i \in CallIds :
          \/ calls'[i] = calls[i]
          \/ /\ \A j \in CallIds \ {i} : calls'[j] = calls[j]
             /\ IF calls[i].pc = "none"
                THEN calls'[i] = compressImage(calls'[i].imgWidth,
                                               calls'[i].imgHeight,
                                               calls'[i].minSizeKB,
                                               calls'[i].maxSizeKB)
                ELSE calls'[i] = SameCallback(calls[i], calls[i], calls'[i])]_vars

\* Both calls are in the middle of their searches, on canvases of different
\* sizes and at different qualities.
C15_Witness ==
    /\ calls[1].pc = "encode" /\ calls[2].pc = "encode"
    /\ calls[1].canvasWidth # calls[2].canvasWidth
    /\ Len(calls[1].blobs) = 2 /\ Len(calls[2].blobs) = 4
    /\ CurQuality(calls[1]) # CurQuality(calls[2])

\* C16: the student form invokes compressImage with the window 20, 50 only;
\* and when the compression of an upload fails, the handler leaves the
\* stored studentImage as it is, shows the failure message as the form
\* error, puts the stored image (or none) back in the preview, and sets
\* isCompressing to false.
C16_FormFailureHandling ==
    /\ [](\A k \in CallIds :
             calls[k].pc # "none" =>
                 /\ calls[k].minSizeKB = FormMinKB
                 /\ calls[k].maxSizeKB = FormMaxKB)
    /\ [][\A k \in CallIds :
             (/\ form.uploads[k].awaiting
              /\ ~form'.uploads[k].awaiting
              /\ calls[k].settled = "rejected")
             => /\ form'.studentImage = form.studentImage
                /\ ErrorShown(form')
                /\ form'.error = calls[k].error
                /\ form'.imagePreview = OrNull(form.studentImage)
                /\ ~form'.isCompressing]_vars

\* A chosen file that is no picture has been refused (img.onerror) and the
\* handler has finished: the form is ready for another file and shows no
\* error.
C16_Witness ==
    /\ form.mounted
    /\ \A k \in CallIds : ~form.uploads[k].awaiting
    /\ ~form.isCompressing
    /\ form.error = Undefined
    /\ ~ErrorShown(form)

\* C17: a measured blob is followed by another tryCompress activation exactly
\* when its size is > maxSizeKB, and by another encode exactly when, besides,
\* an attempt is left; the retry has quality lower by 0.1 and one attempt
\* less.  A size <= maxSizeKB, so also a size equal to maxSizeKB or (for
\* minSizeKB <= maxSizeKB) equal to minSizeKB, is accepted.
C17_RetryIffOversize ==
    \A i \in 1 .. Len(call.blobs) :
        call.blobs[i] # NoBlob =>
            /\ Len(call.tries) > i <=> call.blobs[i] > call.maxSizeKB * 1024
            /\ NumEncodes(call) > i <=>
                  (call.blobs[i] > call.maxSizeKB * 1024
                      /\ call.tries[i].attempts > 1)
            /\ Len(call.tries) > i =>
                  /\ call.tries[i + 1].quality = call.tries[i].quality - 1
                  /\ call.tries[i + 1].attempts = call.tries[i].attempts - 1
            /\ call.blobs[i] <= call.maxSizeKB * 1024 =>
                  /\ call.accepted = call.blobs[i]
                  /\ call.pc \in {"blobRead", "done"}
                  /\ call.settled # "rejected"

\* After one retry the size equals maxSizeKB and minSizeKB, and is accepted.
C17_Witness ==
    /\ call.settled = "resolved"
    /\ Len(call.blobs) = 2
    /\ call.blobs[1] = call.maxSizeKB * 1024 + 1
    /\ call.blobs[2] = call.maxSizeKB * 1024
    /\ call.blobs[2] = call.minSizeKB * 1024
    /\ call.tries = <<[quality |-> 9, attempts |-> 10],
                      [quality |-> 8, attempts |-> 9]>>

\* C18: the accepted blob is the last one measured and the first of size
\* <= maxSizeKB: all earlier ones were > maxSizeKB, it was encoded at quality
\* 0.9 - 0.1*(n-1), no encode follows it, and a resolved call returns it.
C18_FirstFit ==
    /\ call.accepted # NoBlob =>
          LET n == Len(call.blobs)
          IN  /\ n >= 1
              /\ call.accepted = call.blobs[n]
              /\ Fits(call, call.blobs[n])
              /\ \A i \in 1 .. n - 1 : Oversize(call, call.blobs[i])
              /\ Len(call.tries) = n /\ NumEncodes(call) = n
              /\ call.tries[n].quality = 9 - (n - 1)
    /\ call.settled = "resolved" =>
          /\ call.accepted # NoBlob
          /\ call.result.bytes = call.accepted
          /\ call.result.mime = "image/jpeg"

\* The third attempt is the first that fits, and its blob is returned.
C18_Witness ==
    /\ call.settled = "resolved"
    /\ Len(call.blobs) = 3
    /\ call.result.bytes = call.blobs[3]
    /\ call.blobs[3] < call.blobs[1]

\* Values of minSizeKB a run is compared with, below and above maxSizeKB.
OtherMins == (1 .. (MaxKB + 1)) \cup {20, 51}

\* The call c as it would stand had it been started with minSizeKB = m and
\* gone the same way: only the bound and its mention in a size error differ.
WithMin(c, m) ==
    [c EXCEPT !.minSizeKB = m,
              !.error = IF @.kind = "size" THEN [@ EXCEPT !.minSizeKB = m]
                        ELSE @]

\* C19: two runs that differ only in minSizeKB (also one above maxSizeKB)
\* stay alike step by step: the callback that takes one run a step further
\* takes the other run to the same state, but for minSizeKB and its mention
\* in the size error; so they make the same attempts, accept the same blob
\* or fail alike.
C19_MinSizeIrrelevant ==
    [][round' = round =>
          \A m \in OtherMins :
              SameCallback(WithMin(call, m), call, call') = WithMin(call', m)]_vars

\* A call with minSizeKB > maxSizeKB that was accepted, not refused.
C19_Witness ==
    /\ call.minSizeKB > call.maxSizeKB
    /\ call.settled = "resolved"
    /\ Len(call.blobs) = 2

\* The dashboard views and the role each one is for.
DashboardRole(v) ==
    IF v = "ADMIN_DASHBOARD" THEN "HEAD_TEACHER"
    ELSE IF v = "TEACHER_DASHBOARD" THEN "TEACHER"
    ELSE "none"

\* C20: access control of the views.  Every render pass of App returns the
\* admin dashboard only for a loggedInUser of role HEAD_TEACHER and the
\* teacher dashboard only for one of role TEACHER; a pass that finds the view
\* on a dashboard and any other loggedInUser (or none) returns nothing and
\* sets the view to LOGIN.  Between render passes the dashboard on the
\* screen is the one of the logged-in user's role.
C20_DashboardAccess ==
    /\ [](~app.stale =>
             /\ app.screen = "AdminDashboard" =>
                    app.loggedInUser.role = "HEAD_TEACHER"
             /\ app.screen = "TeacherDashboard" =>
                    app.loggedInUser.role = "TEACHER"
             /\ app.screen # "Nothing")
    /\ [][app.stale =>
             /\ app'.screen = "AdminDashboard" =>
                    /\ app.view = "ADMIN_DASHBOARD"
                    /\ app.loggedInUser.role = "HEAD_TEACHER"
             /\ app'.screen = "TeacherDashboard" =>
                    /\ app.view = "TEACHER_DASHBOARD"
                    /\ app.loggedInUser.role = "TEACHER"
             /\ (/\ DashboardRole(app.view) # "none"
                 /\ app.loggedInUser.role # DashboardRole(app.view))
                => /\ app'.screen = "Nothing"
                   /\ app'.view = "LOGIN"]_vars

\* After a logout a render pass has found the view on a dashboard with
\* nobody logged in: it rendered nothing and set the view to LOGIN.
C20_Witness ==
    /\ app.screen = "Nothing"
    /\ app.view = "LOGIN"
    /\ app.loggedInUser = NoUser
    /\ Len(app.auditLog) >= 2

\* ------------------------------------------------------ login and session
Dashboards == {"ADMIN_DASHBOARD", "TEACHER_DASHBOARD"}
DashboardScreens == {"AdminDashboard", "TeacherDashboard"}

\* C21: logout leads to the login view.  Whenever nobody is logged in while
\* the view is a dashboard, the view eventually is LOGIN, and no render pass
\* until then returns a dashboard.
C21_LogoutLeadsToLogin ==
    /\ (app.loggedInUser = NoUser /\ app.view \in Dashboards)
           ~> (app.view = "LOGIN")
    /\ [][(app.loggedInUser = NoUser /\ app.view \in Dashboards)
              => app'.screen \notin DashboardScreens]_vars

\* A logout handler has just run: the teacher dashboard of the last render
\* pass is still on the screen and the next pass is due.
C21_Witness ==
    /\ app.loggedInUser = NoUser
    /\ app.view = "TEACHER_DASHBOARD"
    /\ app.screen = "TeacherDashboard"
    /\ app.stale

\* C22: handleLogin logs in exactly when the users map has an account under
\* the typed username whose passwordHash is the typed password.  Then
\* loggedInUser is that account and the view is the dashboard of its role;
\* otherwise loggedInUser and the view stay and the login error is set.
C22_LoginIffCredentials ==
    [][HandleLogin =>
          LET known == app.username \in DOMAIN app.users
              ok == known /\ app.users[app.username].passwordHash = app.password
          IN  IF ok
              THEN /\ app'.loggedInUser = app.users[app.username]
                   /\ app'.loggedInUser.username = app.username
                   /\ app'.view = IF app'.loggedInUser.role = "HEAD_TEACHER"
                                  THEN "ADMIN_DASHBOARD"
                                  ELSE "TEACHER_DASHBOARD"
                   /\ app'.loggedInUser.role \in {"HEAD_TEACHER", "TEACHER"}
                   /\ ~app'.loginError
              ELSE /\ app'.loggedInUser = app.loggedInUser
                   /\ app'.view = app.view
                   /\ app'.loginError]_vars

\* A right username with the password of another account was refused, and
\* so was a name every object answers to.
C22_Witness ==
    /\ app.screen = "Login"
    /\ app.loginError
    /\ app.loggedInUser = NoUser
    /\ \/ app.username = "headteacher" /\ app.password = "teacher123"
       \/ app.username = "constructor"

\* C26: session invariant.  Whenever somebody is logged in, the view is the
\* dashboard of that user's role; so nobody is logged in while the view is
\* LOGIN or STUDENT_SEARCH.
C26_SessionInvariant ==
    /\ app.loggedInUser # NoUser =>
           app.view = IF app.loggedInUser.role = "HEAD_TEACHER"
                      THEN "ADMIN_DASHBOARD"
                      ELSE IF app.loggedInUser.role = "TEACHER"
                      THEN "TEACHER_DASHBOARD"
                      ELSE "none"
    /\ app.view \in {"LOGIN", "STUDENT_SEARCH"} => app.loggedInUser = NoUser

\* A second session: the head teacher is logged in on the admin dashboard
\* after an earlier logout.
C26_Witness ==
    /\ app.loggedInUser # NoUser
    /\ app.loggedInUser.role = "HEAD_TEACHER"
    /\ app.screen = "AdminDashboard"
    /\ ~app.stale
    /\ Len(app.auditLog) >= 2

\* ----------------------------------------------------------------- accounts
\* C27: from initialization on, through every add-teacher and delete-user
\* action, the users map has exactly one HEAD_TEACHER account, 'headteacher'
\* with its original password.  handleAddTeacher only adds TEACHER accounts
\* and leaves every existing account as it is; for a username that exists
\* it sets an error and leaves the map unchanged; and only TEACHER accounts
\* are ever deleted.
C27_OneHeadTeacher ==
    /\ [](app.init # "mounted" =>
             /\ {u \in DOMAIN app.users : app.users[u].role = "HEAD_TEACHER"}
                    = {"headteacher"}
             /\ app.users["headteacher"] = initialUsers["headteacher"])
    /\ [][/\ \A u \in DOMAIN app.users \ DOMAIN app'.users :
                 app.users[u].role = "TEACHER"
          /\ HandleAddTeacher =>
                 /\ \A u \in DOMAIN app.users :
                        u \in DOMAIN app'.users /\ app'.users[u] = app.users[u]
                 /\ \A u \in DOMAIN app'.users \ DOMAIN app.users :
                        /\ u = app.newUsername
                        /\ app'.users[u].role = "TEACHER"
                 /\ app.newUsername \in DOMAIN app.users =>
                        /\ app'.users = app.users
                        /\ app'.adminError # "none"
                        /\ app'.auditLog = app.auditLog]_vars

\* A second teacher has been created, and adding 'headteacher' again was
\* refused as an existing username.
C27_Witness ==
    /\ "teacher2" \in DOMAIN app.users
    /\ app.newUsername = "headteacher"
    /\ app.adminError = "exists"

\* ----------------------------------------------------------- student records
\* C25: roll numbers of new students are unique.  When a student is added
\* (studentToEdit is null), handleSubmit refuses a roll number that is a key
\* of the stored students with an error and does not call onSave; it also
\* refuses, without calling onSave, a submission whose rollNumber,
\* studentName, fatherName or dob is empty.  So no submission changes or
\* removes the record of another roll number: an added student gets a new
\* key, and an edit replaces only the record under its own roll number,
\* which the form cannot change.
C25_UniqueRollNumbers ==
    /\ [](form.mounted /\ app.studentToEdit # <<>> =>
              form.rollNumber = app.studentToEdit[1].rollNumber)
    /\ [][HandleSubmit =>
             LET adding == app.studentToEdit = <<>>
                 own == IF adding THEN {}
                        ELSE {app.studentToEdit[1].rollNumber}
             IN  /\ (adding /\ form.rollNumber \in DOMAIN app.students) =>
                        /\ app' = app
                        /\ ErrorShown(form')
                 /\ (form.rollNumber = "" \/ form.studentName = ""
                     \/ form.fatherName = "" \/ form.dob = "") =>
                        /\ app' = app
                        /\ ErrorShown(form')
                 /\ \A r \in DOMAIN app.students \ own :
                        /\ r \in DOMAIN app'.students
                        /\ app'.students[r] = app.students[r]
                 /\ DOMAIN app'.students \ DOMAIN app.students
                        \subseteq (IF adding THEN {form.rollNumber} ELSE {})
                 /\ app'.students # app.students =>
                        app'.students[form.rollNumber] = FormStudent(form)]_vars

\* Adding a student under the roll number of a stored student was refused.
C25_Witness ==
    /\ form.mounted
    /\ app.studentToEdit = <<>>
    /\ form.error = RollExistsError
    /\ form.rollNumber \in DOMAIN app.students
    /\ form.studentName = "Bina"

\* ---------------------------------------------------------------- audit log
\* The step puts exactly one entry in front of the log and leaves the
\* entries that were there as they are and in their order.
OneEntryAdded ==
    /\ Len(app'.auditLog) = Len(app.auditLog) + 1
    /\ Tail(app'.auditLog) = app.auditLog

\* The step puts the entry of `user` doing `action` in front of the log.
Logs(user, action) ==
    /\ OneEntryAdded
    /\ Head(app'.auditLog) = [user |-> user, action |-> action]

\* C28: after initialization the audit log is append-only and newest-first:
\* a step leaves it as it is or puts one entry in front.  Each completed
\* student add, update and delete, teacher creation and deletion, signature
\* update and logout puts in front exactly one entry that names the action
\* and the user who was logged in when doing it (for a signature, when
\* choosing the file); nothing else adds an entry, so a declined
\* confirmation or a refused form adds none.
C28_AuditLogAppendOnly ==
    [][app.init = "done" =>
          LET who == app.loggedInUser.username
              saved == HandleSubmit /\ form'.error = NoError
              sigDone == app.sigRead.pending /\ ~app'.sigRead.pending
              loggedOut == app.loggedInUser # NoUser
                           /\ app'.loggedInUser = NoUser
              gone == DOMAIN app.students \ DOMAIN app'.students
              created == DOMAIN app'.users \ DOMAIN app.users
              deleted == DOMAIN app.users \ DOMAIN app'.users
          IN  /\ app'.auditLog = app.auditLog \/ OneEntryAdded
              /\ OneEntryAdded <=>
                     \/ saved \/ sigDone \/ loggedOut
                     \/ app'.students # app.students
                     \/ app'.users # app.users
              /\ saved =>
                     /\ who \in DOMAIN app.users
                     /\ Logs(who, Action(IF app.studentToEdit = <<>>
                                         THEN "Added new student: "
                                         ELSE "Updated student: ",
                                         form.rollNumber))
              /\ \A r \in gone :
                     Logs(who, Action("Deleted student record: ", r))
              /\ \A u \in created :
                     Logs(who, Action("Created new teacher account: ", u))
              /\ \A u \in deleted : Logs(who, Action("Deleted user: ", u))
              /\ sigDone =>
                     /\ app.sigRead.user = "headteacher"
                     /\ Logs(app.sigRead.user,
                             Action("Updated principal signature.", ""))
              /\ loggedOut => Logs(who, Action("Logged out", ""))
              /\ (app'.students # app.students /\ ~saved) => gone # {}
              /\ app'.users # app.users => (created \cup deleted) # {}]_vars

\* A teacher added a student and logged out: the log holds the two entries
\* newest first, in front of the entry of the initialization.
C28_Witness ==
    /\ Len(app.auditLog) = 3
    /\ app.auditLog[1] = [user |-> "teacher1",
                          action |-> Action("Logged out", "")]
    /\ app.auditLog[2] = [user |-> "teacher1",
                          action |-> Action("Added new student: ", "102")]
    /\ app.auditLog[3] = InitializedEntry

\* ------------------------------------------------------------ student search
\* The whole number a captcha entry denotes: digits, or digits and an
\* exponent; NaN for an entry that denotes no whole number.
EnteredAnswer(cs) ==
    LET n == CHOOSE k \in 0 .. Len(cs) :
                 /\ \A i \in 1 .. k : IsDigit(cs[i])
                 /\ k < Len(cs) => ~IsDigit(cs[k + 1])
        rest == SubSeq(cs, n + 1, Len(cs))
    IN  IF n = 0 THEN NaN
        ELSE IF rest = <<>> THEN DigitsValue(cs, 0)
        ELSE IF /\ Head(rest) = "e"
                /\ Len(rest) > 1
                /\ \A i \in 2 .. Len(rest) : IsDigit(rest[i])
        THEN DigitsValue(cs, 0) * 10 ^ DigitsValue(Tail(rest), 0)
        ELSE NaN

\* The three fields are filled in, the entered answer is the captcha's
\* answer, and a student with the entered date of birth is stored under the
\* trimmed roll number.
SearchSucceeds(sr, students) ==
    /\ ~IsEmpty(sr.rollNumber)
    /\ sr.dob # ""
    /\ sr.captchaInput # <<>>
    /\ EnteredAnswer(sr.captchaInput) = sr.captcha.answer
    /\ Trim(sr.rollNumber) \in DOMAIN students
    /\ students[Trim(sr.rollNumber)].dob = sr.dob

\* C23: a submission of the search form sets foundStudent only when the
\* three fields are non-empty, the entered captcha answer equals the answer
\* of the current captcha, and a student whose dob equals the entered dob is
\* stored under the trimmed roll number; the student shown is then that
\* student.  In every other case foundStudent is null after the submission
\* and an error is set.
C23_SearchGating ==
    [][HandleSearch =>
         IF SearchSucceeds(app.search, app.students)
         THEN app'.search.foundStudent # <<>> =>
                  app'.search.foundStudent =
                      <<app.students[Trim(app.search.rollNumber)]>>
         ELSE /\ app'.search.foundStudent = <<>>
              /\ app'.search.error # "none"]_vars

\* A student is shown for a roll number typed with spaces around it.
C23_Witness ==
    /\ app.search.foundStudent # <<>>
    /\ app.search.rollNumber.lead > 0
    /\ app.search.error = "none"

\* C24: every submission of the search form, whatever its outcome, generates
\* a new captcha and clears the captcha input, so that no captcha is there
\* for a second submission.
C24_CaptchaRegenerated ==
    [][HandleSearch =>
         /\ app'.search.captchaNo = app.search.captchaNo + 1
         /\ app'.search.captchaInput = <<>>]_vars

\* A submission has been refused for an empty field, and the first captcha
\* and the answer typed for it are still there.
C24_Witness ==
    /\ app.search.error = "required"
    /\ app.search.captchaNo = 1
    /\ app.search.captchaInput # <<>>

\* ------------------------------------------------------- overlapping uploads
\* A compression started by the form is in flight.
InFlight(k) == form.uploads[k].awaiting

\* The handler of the upload k goes on after its await in this step.
Settles(k) ==
    /\ HandleImageChangeSettled
    /\ form.uploads[k].awaiting
    /\ ~form'.uploads[k].awaiting

\* C29: when a second file is selected while a compression is in flight,
\* studentImage and the preview end up holding the result of the most
\* recently selected file: its result is stored when its compression
\* succeeds, and once it is stored the end of an earlier upload does not
\* replace it.  And isCompressing is true whenever a compression is in
\* flight.
C29_LatestUploadWins ==
    /\ []((\E k \in CallIds : InFlight(k)) => form.isCompressing)
    /\ [][\A k \in CallIds :
             Settles(k) =>
                 IF k = form.selected
                 THEN calls[k].settled = "resolved" =>
                          /\ form'.studentImage = calls[k].result
                          /\ form'.imagePreview = calls[k].result
                 ELSE form.fulfilled /\ ~InFlight(form.selected) =>
                          /\ form'.studentImage = form.studentImage
                          /\ form'.imagePreview = form.imagePreview]_vars

\* The file selected last is still being compressed, an earlier upload has
\* ended, and the form says that nothing is being compressed.
C29_Witness ==
    /\ form.mounted
    /\ form.selected \in CallIds
    /\ InFlight(form.selected)
    /\ \A k \in CallIds \ {form.selected} : ~InFlight(k)
    /\ ~form.isCompressing

====
